---- MODULE Spec2Model ----
(***************************************************************************)
(* A model of httpctx: client.Do and the cancellable executor              *)
(* client.handle, which races a transport's RoundTrip (run by a background *)
(* goroutine that reports on a one-slot channel) against ctx.Done().       *)
(*                                                                         *)
(* One top-level Do call is modelled.  A 302 answer makes Do re-enter      *)
(* itself through Get, so the call is a stack of Do frames 1..depth; each  *)
(* frame that reaches handle owns a channel, a transport and a goroutine.  *)
(***************************************************************************)
EXTENDS Integers, Sequences, FiniteSets, TLC

\* ------------------------------------------------------------------ bounds
\* Most Do frames on the stack (the code itself has no limit on redirects).
MaxDepth == 2

\* ok is compared with the 2xx range on the codes -MaxStatus..MaxStatus
MaxStatus == 700

\* Most times the signal is fired
MaxFires == 2

Frames == 1..MaxDepth

\* ------------------------------------------------------------- constants
\* http.StatusFound
StatusFound == 302

\* capacity of the completion channel: make(chan response, 1)
ChanCap == 1

\* ----------------------------------------------------------------- values
\* errors are records of one shape so that any two can be compared
Err(kind) == [kind |-> kind, StatusCode |-> 0, Data |-> ""]

NilErr == Err("nil")

EmptyPathErr == Err("EmptyPathErr")

\* json.Marshal failed on the payload
EncodingErr == Err("json.Marshal")

\* url.Parse / http.NewRequest rejected the path
UrlErr == Err("url")

\* the error RoundTrip returns when the round trip fails
NetErr == Err("net")

\* context.Canceled and context.DeadlineExceeded, the values of ctx.Err()
Canceled == Err("context canceled")

DeadlineExceeded == Err("context deadline exceeded")

\* json.Unmarshal failed on the response body
DecodeErr == Err("json.Unmarshal")

\* the error a Read of a response body returns when the connection breaks
ReadErr == Err("read")

\* &ErrorMessage{StatusCode: ..., Data: ...}
ErrorMessage(code, data) == [kind |-> "ErrorMessage", StatusCode |-> code, Data |-> data]

\* a pointer is a sequence: <<>> is nil, <<x>> points at x
Nil == << >>

Ptr(x) == << x >>

\* the status codes a server answers with, around the class boundaries
StatusCodes == {199, 200, 299, 300, StatusFound, 500}

\* response bodies: a JSON document and bytes that are not JSON
JsonBody == "{\"hello\":\"world\"}"

Bodies == {JsonBody, "oops"}

\* what arrives of JsonBody when the connection breaks half way
JsonPrefix == "{\"hello\""

\* a response body as an io.Reader: the bytes the server wrote, the bytes
\* Read hands out before the stream ends, and how it ends (NilErr: io.EOF)
Stream(content) == [content |-> content, bytes |-> content, err |-> NilErr]

\* a body whose connection breaks after prefix has arrived
BrokenStream(content, prefix) == [content |-> content, bytes |-> prefix, err |-> ReadErr]

\* a reader that was read to its end: nothing more arrives
Drained(body) == [body EXCEPT !.bytes = ""]

\* values of the Location header ("" when the header is absent)
Locations == {"", "http://b"}

\* an *http.Response, as far as Do looks at it
Response(status, location, body) == [StatusCode |-> status, Location |-> location, Body |-> body]

\* the statuses answered with a body that breaks while it is read
BrokenStatusCodes == {200, 500}

\* what a server may answer: a redirect carries a Location, a 200 any of
\* the bodies, every other status the JSON document; the body of a 200 or
\* a 500 may break while it is read
Responses ==
    {Response(StatusFound, l, Stream("moved")) : l \in Locations}
      \cup {Response(200, "", Stream(b)) : b \in Bodies}
      \cup {Response(s, "", Stream(JsonBody)) : s \in StatusCodes \ {StatusFound}}
      \cup {Response(s, "", BrokenStream(JsonBody, JsonPrefix)) : s \in BrokenStatusCodes}

\* the (resp, err) pairs RoundTrip may return
RoundTripResults ==
    {[resp |-> Ptr(r), err |-> NilErr] : r \in Responses}
      \cup {[resp |-> Nil, err |-> NetErr]}

\* arguments of the top-level call
Paths == {"", "http://a", "::bad"}

\* a path that carries a query of its own, given to one call
QueryPath == "http://a?x=1"

Payloads == {"nil", "value", "unencodable"}

TargetTypes == {"nil", "*string", "*struct"}

\* a target of the remaining kind marshal tells apart, given to one call
BytesTarget == "*[]byte"

\* query parameters of the top-level call ("nil": no *url.Values given)
ParamValues == {"nil", "hello=world"}

\* the arguments Do receives from the verb methods
Get(path, params, target) ==
    [method |-> "GET", path |-> path, params |-> params, payload |-> "nil",
     v |-> target]

Post(path, data, target) ==
    [method |-> "POST", path |-> path, params |-> "nil", payload |-> data,
     v |-> target]

Put(path, data, target) ==
    [method |-> "PUT", path |-> path, params |-> "nil", payload |-> data,
     v |-> target]

Delete(path) ==
    [method |-> "DELETE", path |-> path, params |-> "nil", payload |-> "nil",
     v |-> "nil"]

\* the calls the model makes
Calls ==
    {Get(p, q, t) : p \in Paths, q \in ParamValues, t \in TargetTypes}
      \cup {Post(p, pl, t) : p \in Paths, pl \in Payloads, t \in TargetTypes}
      \cup {Put(p, pl, t) : p \in Paths, pl \in Payloads, t \in TargetTypes}
      \cup {Delete(p) : p \in Paths}
      \cup {Get("http://a", "nil", BytesTarget)}
      \cup {Get(QueryPath, "hello=world", "nil")}

\* the calls made where only the executor's progress is examined
PlainCalls == {Delete(p) : p \in Paths}

\* ------------------------------------------------------- pure functions
\* Go's integer division truncates toward zero
GoDiv(a, b) == IF a >= 0 THEN a \div b ELSE -((-a) \div b)

\* ok with an inclusive upper bound: 300 passes for a success
okUpTo300(statusCode) == statusCode >= 200 /\ statusCode <= 300

\* ok: the status is in the 2xx class
ok(statusCode) ==
    LET firstDigit == GoDiv(statusCode, 100)
    IN  firstDigit = 2

\* toJson: no reader for a nil payload, json.Marshal otherwise
toJson(payload) ==
    CASE payload = "nil" -> [body |-> "", err |-> NilErr]
      [] payload = "unencodable" -> [body |-> "", err |-> EncodingErr]
      [] OTHER -> [body |-> JsonBody, err |-> NilErr]

\* url.Parse and http.NewRequest accept the path
ValidUrl(path) == path # "::bad"

\* url.Parse: the address up to its "?" and the query after it
ParseUrl(path) ==
    IF path = QueryPath THEN [base |-> "http://a", query |-> "x=1"]
    ELSE [base |-> path, query |-> ""]

\* uri.RawQuery = params.Encode(); uri.String()
WithQuery(path, params) == [ParseUrl(path) EXCEPT !.query = params]

\* the header fields newRequest sets
HeaderKeys == {"User-Agent", "Accept", "Content-Type"}

\* the Header of the request http.NewRequest returns
NoHeader == [k \in HeaderKeys |-> << >>]

\* Header.Set: the values of the key become the one value
HeaderSet(h, key, value) == [h EXCEPT ![key] = << value >>]

\* the three Header.Set calls of newRequest
Headers(userAgent) ==
    HeaderSet(HeaderSet(HeaderSet(NoHeader, "User-Agent", userAgent),
                        "Accept", "application/json"),
              "Content-Type", "application/json")

\* newRequest leaving the User-Agent alone
newRequestKeepsDefaultAgent(userAgent, method, path, params, payload) ==
    LET j == toJson(payload)
        _path == IF params # "nil" THEN WithQuery(path, params)
                 ELSE ParseUrl(path)
    IN  IF path = "" THEN [req |-> Nil, err |-> EmptyPathErr]
        ELSE IF j.err # NilErr THEN [req |-> Nil, err |-> j.err]
        ELSE IF ~ValidUrl(path) THEN [req |-> Nil, err |-> UrlErr]
        ELSE [req |-> Ptr([Method |-> method, URL |-> _path, Body |-> j.body,
                           Header |-> HeaderSet(HeaderSet(NoHeader, "Accept",
                                                          "application/json"),
                                                "Content-Type", "application/json"),
                           Authorization |-> ""]),
              err |-> NilErr]

\* newRequest encoding the payload before it looks at the path
newRequestEncodesFirst(userAgent, method, path, params, payload) ==
    LET j == toJson(payload)
        _path == IF params # "nil" THEN WithQuery(path, params)
                 ELSE ParseUrl(path)
    IN  IF j.err # NilErr THEN [req |-> Nil, err |-> j.err]
        ELSE IF path = "" THEN [req |-> Nil, err |-> EmptyPathErr]
        ELSE IF ~ValidUrl(path) THEN [req |-> Nil, err |-> UrlErr]
        ELSE [req |-> Ptr([Method |-> method, URL |-> _path, Body |-> j.body,
                           Header |-> Headers(userAgent),
                           Authorization |-> ""]),
              err |-> NilErr]

\* newRequest: the request, or the error that stopped its construction
newRequest(userAgent, method, path, params, payload) ==
    LET j == toJson(payload)
        _path == IF params # "nil" THEN WithQuery(path, params)
                 ELSE ParseUrl(path)
    IN  IF path = "" THEN [req |-> Nil, err |-> EmptyPathErr]
        ELSE IF j.err # NilErr THEN [req |-> Nil, err |-> j.err]
        ELSE IF ~ValidUrl(path) THEN [req |-> Nil, err |-> UrlErr]
        ELSE [req |-> Ptr([Method |-> method, URL |-> _path, Body |-> j.body,
                           Header |-> Headers(userAgent),
                           Authorization |-> ""]),
              err |-> NilErr]

\* an AuthFunc: the one modelled signs the request it is given
Authorize(r) == [r EXCEPT !.Authorization = "token"]

\* toByteArray: the bytes io.Copy got out of body; the error io.Copy
\* returns when a Read fails is not looked at
toByteArray(body) == body.bytes

\* json.Unmarshal accepts the bytes
ValidJson(data) == data = JsonBody

\* json.Unmarshal: the value the document stands for, as Go prints it
Unmarshal(data) == IF data = JsonBody THEN "map[hello:world]" ELSE ""

\* marshal sending every target through json.Unmarshal
marshalAlwaysJson(data, v) ==
    IF ValidJson(data)
    THEN [v |-> [v EXCEPT !.val = Unmarshal(data)], err |-> NilErr]
    ELSE [v |-> v, err |-> DecodeErr]

\* marshal: what the target holds afterwards, and the error
marshal(data, v) ==
    CASE v.type = "*[]byte" -> [v |-> [v EXCEPT !.val = data], err |-> NilErr]
      [] v.type = "*string" -> [v |-> [v EXCEPT !.val = data], err |-> NilErr]
      [] OTHER -> IF ValidJson(data)
                  THEN [v |-> [v EXCEPT !.val = Unmarshal(data)], err |-> NilErr]
                  ELSE [v |-> v, err |-> DecodeErr]

\* ------------------------------------------------------------------ state
VARIABLES
    pc,        \* where the calling goroutine is
    depth,     \* number of Do frames on its stack; the top frame runs
    ctxErr,    \* ctx.Err(): NilErr until the signal fires
    authFunc,  \* client.authFunc: "nil" or "sign"
    verbose,   \* client.verbose, as set by WithVerbose
    authCalls, \* how often authFunc was invoked
    args,      \* per frame: the arguments of Do
    v,         \* the decode target shared by all frames
    req,       \* per frame: the request built (and authorized)
    tr,        \* per frame: the transport newTransporter returned
    bg,        \* per frame: where the background goroutine is
    ch,        \* per frame: the completion channel
    rt,        \* per frame: what RoundTrip returned
    hret,      \* per frame: handle's named results (resp, err)
    sel,       \* per frame: the case handle's select took
    body,      \* per frame: reads and closes of the response's Body
    deferred,  \* per frame: Do has deferred resp.Body.Close()
    ret,       \* the error the returning Do frame returns
    doneAtRT,  \* per frame: ctx was done when RoundTrip returned
    ready,     \* per frame: the cases that were ready when the select chose
    sends,     \* per frame: sends on the channel so far
    peer,      \* a second handle call running on the same client at the same time
    fires,     \* how often the signal was fired
    mock       \* the tests' mockTransporter, where it is the transport

vars == << pc, depth, ctxErr, authFunc, verbose, authCalls, args, v, req, tr, bg, ch, rt,
           hret, sel, body, deferred, ret, doneAtRT, ready, sends, peer, fires, mock >>

\* the variables of the Do frames and of the calling goroutine's data
callVars == << authFunc, verbose, authCalls, args, v, req, deferred, ret >>

\* the variables of the executor's own state
handleVars == << tr, bg, ch, rt, hret, sel, doneAtRT, ready, sends >>

\* the call running beside this one, the count of the signal's firings and
\* the tests' transport
otherVars == << peer, fires, mock >>

UserAgent == "httpctx-go:0.1"

NoArgs == [method |-> "", path |-> "", params |-> "nil", payload |-> "nil"]

\* a transport: whether newTransporter made it, whether its RoundTrip hangs
\* until CancelRequest, the calls of CancelRequest and of RoundTrip, and
\* the request each was last given
NoTransport == [created |-> FALSE, hangs |-> FALSE, cancels |-> 0, trips |-> 0,
                sent |-> Nil, aborted |-> Nil]

NoChan == [made |-> FALSE, cap |-> 0, buf |-> << >>, closed |-> FALSE]

NoResult == [resp |-> Nil, err |-> NilErr]

\* a response's Body: reads and closes of the stream the transport handed
\* out and, once DumpResponse has replaced it, of the in-memory copy;
\* drained once Do's toByteArray has run on it, data what it returned
NoBody == [reads |-> 0, closes |-> 0, copied |-> FALSE, copyReads |-> 0, copyCloses |-> 0,
           drained |-> FALSE, data |-> ""]

\* the second handle call before it starts: its own signal, transport,
\* goroutine, channel and results
NoPeer == [pc |-> "idle", ctxErr |-> NilErr, tr |-> NoTransport, bg |-> "none",
           ch |-> NoChan, rt |-> Nil, hret |-> NoResult, sel |-> "none"]

\* the ways a goroutine of handle dies
Panics == {"panic: nil resp", "panic: send on closed channel"}

\* a mockTransporter as NewMockTransporter's closure makes it, with no call
\* running: done is the channel made for it (open, and m.done not nil),
\* closes counts the close(m.done) statements executed, rt is where its
\* RoundTrip stands, sees what RoundTrip's select found in m.done, woken the
\* case that select took, late whether the signal had fired when the timer
\* did, cr where the executor's call of CancelRequest (exec) and RoundTrip's
\* deferred one (defer) stand, panic the run-time panic a close ended in
NoMock == [done |-> "open", ref |-> TRUE, closes |-> 0, rt |-> "idle", sees |-> "none",
           woken |-> "none", late |-> FALSE,
           cr |-> [exec |-> "idle", defer |-> "idle"], panic |-> ""]

\* an unrecovered panic in a goroutine ends the program
Alive ==
    /\ peer.bg \notin Panics
    /\ \A d \in Frames : bg[d] \notin Panics
    /\ mock.panic = ""

Init ==
    /\ pc = "idle"
    /\ depth = 0
    /\ ctxErr = NilErr
    /\ authFunc \in {"nil", "sign"}
    /\ verbose \in BOOLEAN
    /\ authCalls = 0
    /\ args = [d \in Frames |-> NoArgs]
    /\ v = [type |-> "nil", val |-> ""]
    /\ req = [d \in Frames |-> Nil]
    /\ tr = [d \in Frames |-> NoTransport]
    /\ bg = [d \in Frames |-> "none"]
    /\ ch = [d \in Frames |-> NoChan]
    /\ rt = [d \in Frames |-> Nil]
    /\ hret = [d \in Frames |-> NoResult]
    /\ sel = [d \in Frames |-> "none"]
    /\ body = [d \in Frames |-> NoBody]
    /\ deferred = [d \in Frames |-> FALSE]
    /\ ret = NilErr
    /\ doneAtRT = [d \in Frames |-> FALSE]
    /\ ready = [d \in Frames |-> {}]
    /\ sends = [d \in Frames |-> 0]
    /\ peer = NoPeer
    /\ fires = 0
    /\ mock = NoMock

\* ---------------------------------------------------- the calling goroutine
\* a caller invokes Do through Get, Post or Delete
CallDo(c) ==
    /\ pc = "idle"
    /\ Alive
    /\ depth' = 1
    /\ args' = [args EXCEPT ![1] = [method |-> c.method, path |-> c.path,
                                    params |-> c.params, payload |-> c.payload]]
    /\ v' = [type |-> c.v, val |-> ""]
    /\ pc' = "newRequest"
    /\ UNCHANGED << ctxErr, authFunc, verbose, authCalls, req, deferred, ret, body >>
    /\ UNCHANGED handleVars
    /\ UNCHANGED otherVars

\* Do, step 1: build the request; an error ends the frame
DoNewRequest ==
    /\ pc = "newRequest"
    /\ Alive
    /\ LET a == args[depth]
           r == newRequest(UserAgent, a.method, a.path, a.params, a.payload)
       IN  IF r.err # NilErr
           THEN /\ ret' = r.err
                /\ pc' = "return"
                /\ req' = req
           ELSE /\ req' = [req EXCEPT ![depth] = r.req]
                /\ pc' = "auth"
                /\ ret' = ret
    /\ UNCHANGED << depth, ctxErr, authFunc, verbose, authCalls, args, v, deferred, body >>
    /\ UNCHANGED handleVars
    /\ UNCHANGED otherVars

\* Do applying authFunc to the request of the outermost call only, not to
\* the request it builds for a redirect
DoAuthSkipsRedirects ==
    /\ pc = "auth"
    /\ Alive
    /\ IF authFunc # "nil" /\ depth = 1
       THEN /\ req' = [req EXCEPT ![depth] = Ptr(Authorize(req[depth][1]))]
            /\ authCalls' = authCalls + 1
       ELSE UNCHANGED << req, authCalls >>
    /\ pc' = "handle"
    /\ UNCHANGED << depth, ctxErr, authFunc, verbose, args, v, deferred, ret, body >>
    /\ UNCHANGED handleVars
    /\ UNCHANGED otherVars

\* Do, step 2: apply authFunc when there is one
DoAuth ==
    /\ pc = "auth"
    /\ Alive
    /\ IF authFunc # "nil"
       THEN /\ req' = [req EXCEPT ![depth] = Ptr(Authorize(req[depth][1]))]
            /\ authCalls' = authCalls + 1
       ELSE UNCHANGED << req, authCalls >>
    /\ pc' = "handle"
    /\ UNCHANGED << depth, ctxErr, authFunc, verbose, args, v, deferred, ret, body >>
    /\ UNCHANGED handleVars
    /\ UNCHANGED otherVars

\* handle with an unbuffered channel: make(chan response)
HandleStartUnbuffered(hangs) ==
    /\ pc = "handle"
    /\ Alive
    /\ ch' = [ch EXCEPT ![depth] = [made |-> TRUE, cap |-> 0, buf |-> << >>,
                                    closed |-> FALSE]]
    /\ tr' = [tr EXCEPT ![depth] = [created |-> TRUE, hangs |-> hangs, cancels |-> 0,
                                    trips |-> 1, sent |-> req[depth], aborted |-> Nil]]
    /\ bg' = [bg EXCEPT ![depth] = "RoundTrip"]
    /\ pc' = "select"
    /\ UNCHANGED << depth, ctxErr, body, rt, hret, sel, doneAtRT, ready, sends >>
    /\ UNCHANGED callVars
    /\ UNCHANGED otherVars

\* handle looking at the signal first and, when it has fired, returning its
\* reason without a transport or a goroutine
HandleStartChecksCtx(hangs) ==
    /\ pc = "handle"
    /\ Alive
    /\ ch' = [ch EXCEPT ![depth] = [made |-> TRUE, cap |-> ChanCap, buf |-> << >>,
                                    closed |-> FALSE]]
    /\ IF ctxErr # NilErr
       THEN /\ hret' = [hret EXCEPT ![depth].err = ctxErr]
            /\ pc' = "handleReturn"
            /\ UNCHANGED << tr, bg >>
       ELSE /\ tr' = [tr EXCEPT ![depth] =
                        [created |-> TRUE, hangs |-> hangs, cancels |-> 0,
                         trips |-> 1, sent |-> req[depth], aborted |-> Nil]]
            /\ bg' = [bg EXCEPT ![depth] = "RoundTrip"]
            /\ pc' = "select"
            /\ hret' = hret
    /\ UNCHANGED << depth, ctxErr, body, rt, sel, doneAtRT, ready, sends >>
    /\ UNCHANGED callVars
    /\ UNCHANGED otherVars

\* handle, up to its select: make the channel, take a transport from
\* newTransporter, log the request when verbose (DumpRequest puts a copy of
\* the request body back), start the goroutine.  The transport either answers by
\* itself or hangs until CancelRequest.
HandleStart(hangs) ==
    /\ pc = "handle"
    /\ Alive
    /\ ch' = [ch EXCEPT ![depth] = [made |-> TRUE, cap |-> ChanCap, buf |-> << >>,
                                    closed |-> FALSE]]
    /\ tr' = [tr EXCEPT ![depth] = [created |-> TRUE, hangs |-> hangs, cancels |-> 0,
                                    trips |-> 1, sent |-> req[depth], aborted |-> Nil]]
    /\ bg' = [bg EXCEPT ![depth] = "RoundTrip"]
    /\ pc' = "select"
    /\ UNCHANGED << depth, ctxErr, body, rt, hret, sel, doneAtRT, ready, sends >>
    /\ UNCHANGED callVars
    /\ UNCHANGED otherVars

\* the cases of handle's select that can proceed
ReadyCases(d) ==
    (IF ctxErr # NilErr THEN {"ctx"} ELSE {})
      \cup (IF Len(ch[d].buf) > 0 THEN {"ch"} ELSE {})

\* select, case <-ctx.Done(): ready once the signal has fired
SelectDone ==
    /\ pc = "select"
    /\ Alive
    /\ ctxErr # NilErr
    /\ sel' = [sel EXCEPT ![depth] = "ctx"]
    /\ ready' = [ready EXCEPT ![depth] = ReadyCases(depth)]
    /\ pc' = "CancelRequest"
    /\ UNCHANGED << depth, ctxErr, body, tr, bg, ch, rt, hret, doneAtRT, sends >>
    /\ UNCHANGED callVars
    /\ UNCHANGED otherVars

\* the result case forgetting resp = r.resp
SelectResultDropsResp ==
    /\ pc = "select"
    /\ Alive
    /\ Len(ch[depth].buf) > 0
    /\ LET r == Head(ch[depth].buf)
       IN  hret' = [hret EXCEPT ![depth] = [resp |-> Nil, err |-> r.err]]
    /\ ch' = [ch EXCEPT ![depth].buf = Tail(@)]
    /\ sel' = [sel EXCEPT ![depth] = "ch"]
    /\ ready' = [ready EXCEPT ![depth] = ReadyCases(depth)]
    /\ pc' = "handleReturn"
    /\ UNCHANGED << depth, ctxErr, body, tr, bg, rt, doneAtRT, sends >>
    /\ UNCHANGED callVars
    /\ UNCHANGED otherVars

\* the result case overriding err with ctx.Err() once the signal has fired,
\* while keeping resp
SelectResultChecksCtx ==
    /\ pc = "select"
    /\ Alive
    /\ Len(ch[depth].buf) > 0
    /\ LET r == Head(ch[depth].buf)
       IN  hret' = [hret EXCEPT ![depth] =
                       [resp |-> r.resp,
                        err |-> IF ctxErr # NilErr THEN ctxErr ELSE r.err]]
    /\ ch' = [ch EXCEPT ![depth].buf = Tail(@)]
    /\ sel' = [sel EXCEPT ![depth] = "ch"]
    /\ ready' = [ready EXCEPT ![depth] = ReadyCases(depth)]
    /\ pc' = "handleReturn"
    /\ UNCHANGED << depth, ctxErr, body, tr, bg, rt, doneAtRT, sends >>
    /\ UNCHANGED callVars
    /\ UNCHANGED otherVars

\* a select with a default case: handle returns at once, with nothing,
\* when the result is not there yet
SelectWithoutWaiting ==
    /\ pc = "select"
    /\ Alive
    /\ IF Len(ch[depth].buf) > 0
       THEN /\ hret' = [hret EXCEPT ![depth] = Head(ch[depth].buf)]
            /\ ch' = [ch EXCEPT ![depth].buf = Tail(@)]
       ELSE UNCHANGED << hret, ch >>
    /\ sel' = [sel EXCEPT ![depth] = "ch"]
    /\ ready' = [ready EXCEPT ![depth] = ReadyCases(depth)]
    /\ pc' = "handleReturn"
    /\ UNCHANGED << depth, ctxErr, body, tr, bg, rt, doneAtRT, sends >>
    /\ UNCHANGED callVars
    /\ UNCHANGED otherVars

\* select, case r := <-ch: ready once the result is in the channel;
\* resp = r.resp; err = r.err
SelectResult ==
    /\ pc = "select"
    /\ Alive
    /\ Len(ch[depth].buf) > 0
    /\ LET r == Head(ch[depth].buf)
       IN  hret' = [hret EXCEPT ![depth] = [resp |-> r.resp, err |-> r.err]]
    /\ ch' = [ch EXCEPT ![depth].buf = Tail(@)]
    /\ sel' = [sel EXCEPT ![depth] = "ch"]
    /\ ready' = [ready EXCEPT ![depth] = ReadyCases(depth)]
    /\ pc' = "handleReturn"
    /\ UNCHANGED << depth, ctxErr, body, tr, bg, rt, doneAtRT, sends >>
    /\ UNCHANGED callVars
    /\ UNCHANGED otherVars

\* the cancellation case calling tr.CancelRequest a second time
CancelRequestTwice ==
    /\ pc = "CancelRequest"
    /\ Alive
    /\ tr' = [tr EXCEPT ![depth].cancels = @ + 2, ![depth].aborted = req[depth]]
    /\ pc' = "drain"
    /\ UNCHANGED << depth, ctxErr, body, bg, ch, rt, hret, sel, doneAtRT, ready, sends >>
    /\ UNCHANGED callVars
    /\ UNCHANGED otherVars

\* the cancellation case calling tr.CancelRequest once for every firing of
\* the signal
CancelRequestPerFiring ==
    /\ pc = "CancelRequest"
    /\ Alive
    /\ tr' = [tr EXCEPT ![depth].cancels = @ + fires, ![depth].aborted = req[depth]]
    /\ pc' = "drain"
    /\ UNCHANGED << depth, ctxErr, body, bg, ch, rt, hret, sel, doneAtRT, ready, sends >>
    /\ UNCHANGED callVars
    /\ UNCHANGED otherVars

\* the cancellation case: tr.CancelRequest(req)
CancelRequest ==
    /\ pc = "CancelRequest"
    /\ Alive
    /\ tr' = [tr EXCEPT ![depth].cancels = @ + 1, ![depth].aborted = req[depth]]
    /\ pc' = "drain"
    /\ UNCHANGED << depth, ctxErr, body, bg, ch, rt, hret, sel, doneAtRT, ready, sends >>
    /\ UNCHANGED callVars
    /\ UNCHANGED otherVars

\* the cancellation case keeping the response it received: r := <-ch;
\* resp = r.resp
DrainKeepsResponse ==
    /\ pc = "drain"
    /\ Alive
    /\ Len(ch[depth].buf) > 0
    /\ ch' = [ch EXCEPT ![depth].buf = Tail(@)]
    /\ hret' = [hret EXCEPT ![depth] = [resp |-> Head(ch[depth].buf).resp,
                                        err |-> ctxErr]]
    /\ pc' = "handleReturn"
    /\ UNCHANGED << depth, ctxErr, body, tr, bg, rt, sel, doneAtRT, ready, sends >>
    /\ UNCHANGED callVars
    /\ UNCHANGED otherVars

\* the cancellation case without the receive from ch
DrainWithoutReceive ==
    /\ pc = "drain"
    /\ Alive
    /\ hret' = [hret EXCEPT ![depth].err = ctxErr]
    /\ pc' = "handleReturn"
    /\ UNCHANGED << depth, ctxErr, body, tr, bg, ch, rt, sel, doneAtRT, ready, sends >>
    /\ UNCHANGED callVars
    /\ UNCHANGED otherVars

\* the cancellation case returning what it received: r := <-ch;
\* resp = r.resp; err = r.err
DrainReturnsResult ==
    /\ pc = "drain"
    /\ Alive
    /\ Len(ch[depth].buf) > 0
    /\ ch' = [ch EXCEPT ![depth].buf = Tail(@)]
    /\ hret' = [hret EXCEPT ![depth] = Head(ch[depth].buf)]
    /\ pc' = "handleReturn"
    /\ UNCHANGED << depth, ctxErr, body, tr, bg, rt, sel, doneAtRT, ready, sends >>
    /\ UNCHANGED callVars
    /\ UNCHANGED otherVars

\* the cancellation case: <-ch, then err = ctx.Err()
Drain ==
    /\ pc = "drain"
    /\ Alive
    /\ Len(ch[depth].buf) > 0
    /\ ch' = [ch EXCEPT ![depth].buf = Tail(@)]
    /\ hret' = [hret EXCEPT ![depth].err = ctxErr]
    /\ pc' = "handleReturn"
    /\ UNCHANGED << depth, ctxErr, body, tr, bg, rt, sel, doneAtRT, ready, sends >>
    /\ UNCHANGED callVars
    /\ UNCHANGED otherVars

\* handle returns: the deferred close(ch) runs
HandleReturn ==
    /\ pc = "handleReturn"
    /\ Alive
    /\ ch' = [ch EXCEPT ![depth].closed = TRUE]
    /\ pc' = "afterHandle"
    /\ UNCHANGED << depth, ctxErr, body, tr, bg, rt, hret, sel, doneAtRT, ready, sends >>
    /\ UNCHANGED callVars
    /\ UNCHANGED otherVars

\* Do issuing the request again after an error from handle
DoHandleErrorRetries ==
    /\ pc = "afterHandle"
    /\ Alive
    /\ hret[depth].err # NilErr
    /\ IF depth < MaxDepth
       THEN /\ args' = [args EXCEPT ![depth + 1] = args[depth]]
            /\ depth' = depth + 1
            /\ pc' = "newRequest"
            /\ ret' = ret
       ELSE /\ ret' = hret[depth].err
            /\ pc' = "return"
            /\ UNCHANGED << args, depth >>
    /\ UNCHANGED << ctxErr, authFunc, verbose, authCalls, v, req, deferred, body >>
    /\ UNCHANGED handleVars
    /\ UNCHANGED otherVars

\* Do, step 3: an error from handle ends the frame
DoHandleError ==
    /\ pc = "afterHandle"
    /\ Alive
    /\ hret[depth].err # NilErr
    /\ ret' = hret[depth].err
    /\ pc' = "return"
    /\ UNCHANGED << depth, ctxErr, authFunc, verbose, authCalls, args, v, req, deferred, body >>
    /\ UNCHANGED handleVars
    /\ UNCHANGED otherVars

\* the redirect re-issuing the request with the method, the parameters and
\* the payload of the frame that was redirected
DoRedirectKeepsMethod ==
    /\ pc = "afterHandle"
    /\ Alive
    /\ hret[depth].err = NilErr
    /\ hret[depth].resp # Nil
    /\ hret[depth].resp[1].StatusCode = StatusFound
    /\ depth < MaxDepth
    /\ deferred' = [deferred EXCEPT ![depth] = TRUE]
    /\ args' = [args EXCEPT ![depth + 1] =
                   [args[depth] EXCEPT !.path = hret[depth].resp[1].Location]]
    /\ depth' = depth + 1
    /\ pc' = "newRequest"
    /\ UNCHANGED << ctxErr, authFunc, verbose, authCalls, v, req, ret, body >>
    /\ UNCHANGED handleVars
    /\ UNCHANGED otherVars

\* the redirect refusing a Location that is the address just requested
DoRedirectDetectsCycle ==
    /\ pc = "afterHandle"
    /\ Alive
    /\ hret[depth].err = NilErr
    /\ hret[depth].resp # Nil
    /\ hret[depth].resp[1].StatusCode = StatusFound
    /\ IF hret[depth].resp[1].Location = args[depth].path
       THEN /\ ret' = UrlErr
            /\ pc' = "return"
            /\ UNCHANGED << depth, args >>
       ELSE /\ depth < MaxDepth
            /\ args' = [args EXCEPT ![depth + 1] =
                           [method |-> "GET", path |-> hret[depth].resp[1].Location,
                            params |-> "nil", payload |-> "nil"]]
            /\ depth' = depth + 1
            /\ pc' = "newRequest"
            /\ ret' = ret
    /\ deferred' = [deferred EXCEPT ![depth] = TRUE]
    /\ UNCHANGED << ctxErr, authFunc, verbose, authCalls, v, req, body >>
    /\ UNCHANGED handleVars
    /\ UNCHANGED otherVars

\* Do, step 4: defer resp.Body.Close() (which needs a response: a nil one
\* stops the goroutine); on a 302 re-enter Do through
\* Get(ctx, location, nil, v)
DoRedirect ==
    /\ pc = "afterHandle"
    /\ Alive
    /\ hret[depth].err = NilErr
    /\ hret[depth].resp # Nil
    /\ hret[depth].resp[1].StatusCode = StatusFound
    /\ depth < MaxDepth
    /\ deferred' = [deferred EXCEPT ![depth] = TRUE]
    /\ args' = [args EXCEPT ![depth + 1] =
                   [method |-> "GET", path |-> hret[depth].resp[1].Location,
                    params |-> "nil", payload |-> "nil"]]
    /\ depth' = depth + 1
    /\ pc' = "newRequest"
    /\ UNCHANGED << ctxErr, authFunc, verbose, authCalls, v, req, ret, body >>
    /\ UNCHANGED handleVars
    /\ UNCHANGED otherVars

\* resp.Body of frame d as Do finds it: the in-memory copy DumpResponse put
\* there, or the transport's stream, already read to its end when
\* DumpResponse gave up on it
BodyOf(d) ==
    LET b == hret[d].resp[1].Body
    IN  IF body[d].copied THEN Stream(b.bytes)
        ELSE IF body[d].reads > 0 THEN Drained(b)
        ELSE b

\* Do, step 5: defer resp.Body.Close(); drain the body, then either build
\* the ErrorMessage or decode into v
DoProcess ==
    /\ pc = "afterHandle"
    /\ Alive
    /\ hret[depth].err = NilErr
    /\ hret[depth].resp # Nil
    /\ hret[depth].resp[1].StatusCode # StatusFound
    /\ deferred' = [deferred EXCEPT ![depth] = TRUE]
    /\ body' = IF body[depth].copied
               THEN [body EXCEPT ![depth].copyReads = @ + 1, ![depth].drained = TRUE,
                                 ![depth].data = toByteArray(BodyOf(depth))]
               ELSE [body EXCEPT ![depth].reads = @ + 1, ![depth].drained = TRUE,
                                 ![depth].data = toByteArray(BodyOf(depth))]
    /\ LET resp == hret[depth].resp[1]
           data == toByteArray(BodyOf(depth))
       IN  IF ~ok(resp.StatusCode)
           THEN /\ ret' = ErrorMessage(resp.StatusCode, data)
                /\ v' = v
           ELSE IF v.type # "nil"
           THEN /\ ret' = marshal(data, v).err
                /\ v' = marshal(data, v).v
           ELSE /\ ret' = hret[depth].err
                /\ v' = v
    /\ pc' = "return"
    /\ UNCHANGED << depth, ctxErr, authFunc, verbose, authCalls, args, req >>
    /\ UNCHANGED handleVars
    /\ UNCHANGED otherVars

\* a Do frame returning without its deferred Body.Close()
DoReturnLeaksBody ==
    /\ pc = "return"
    /\ Alive
    /\ IF depth > 1
       THEN /\ depth' = depth - 1
            /\ pc' = "return"
       ELSE /\ depth' = 0
            /\ pc' = "done"
    /\ UNCHANGED << ctxErr, authFunc, verbose, authCalls, args, v, req, deferred, ret, body >>
    /\ UNCHANGED handleVars
    /\ UNCHANGED otherVars

\* a Do frame returns: its deferred Body.Close() runs, and the frame below
\* (which returned h.Get(...)) returns the same error
DoReturn ==
    /\ pc = "return"
    /\ Alive
    /\ body' = IF ~deferred[depth] THEN body
               ELSE IF body[depth].copied
               THEN [body EXCEPT ![depth].copyCloses = @ + 1]
               ELSE [body EXCEPT ![depth].closes = @ + 1]
    /\ IF depth > 1
       THEN /\ depth' = depth - 1
            /\ pc' = "return"
       ELSE /\ depth' = 0
            /\ pc' = "done"
    /\ UNCHANGED << ctxErr, authFunc, verbose, authCalls, args, v, req, deferred, ret >>
    /\ UNCHANGED handleVars
    /\ UNCHANGED otherVars

\* ------------------------------------------------ the background goroutine
\* the result RoundTrip may return in frame d: the last frame the bound
\* allows is never answered with a redirect
Answers(d) ==
    IF d < MaxDepth THEN RoundTripResults
    ELSE {r \in RoundTripResults :
             r.resp = Nil \/ r.resp[1].StatusCode # StatusFound}

\* the goroutine calling RoundTrip a second time when the first call fails
RoundTripRetriesOnError(d, r) ==
    /\ bg[d] = "RoundTrip"
    /\ Alive
    /\ ~tr[d].hangs \/ tr[d].cancels > 0
    /\ IF r.err # NilErr /\ tr[d].trips < 2
       THEN /\ tr' = [tr EXCEPT ![d].trips = @ + 1]
            /\ UNCHANGED << rt, doneAtRT, bg >>
       ELSE /\ rt' = [rt EXCEPT ![d] = Ptr(r)]
            /\ doneAtRT' = [doneAtRT EXCEPT ![d] = (ctxErr # NilErr)]
            /\ bg' = [bg EXCEPT ![d] = IF verbose THEN "DumpResponse" ELSE "send"]
            /\ tr' = tr
    /\ UNCHANGED << pc, depth, ctxErr, body, ch, hret, sel, ready, sends >>
    /\ UNCHANGED callVars
    /\ UNCHANGED otherVars

\* resp, err := tr.RoundTrip(req): a hanging transport returns only after
\* CancelRequest
RoundTripReturns(d, r) ==
    /\ bg[d] = "RoundTrip"
    /\ Alive
    /\ ~tr[d].hangs \/ tr[d].cancels > 0
    /\ rt' = [rt EXCEPT ![d] = Ptr(r)]
    /\ doneAtRT' = [doneAtRT EXCEPT ![d] = (ctxErr # NilErr)]
    /\ bg' = [bg EXCEPT ![d] = IF verbose THEN "DumpResponse" ELSE "send"]
    /\ UNCHANGED << pc, depth, ctxErr, body, tr, ch, hret, sel, ready, sends >>
    /\ UNCHANGED callVars
    /\ UNCHANGED otherVars

\* if h.verbose: httputil.DumpResponse(resp, true) reads resp.Body to its
\* end, closes it and puts an in-memory copy in its place; when a Read
\* fails it returns the error and leaves the stream, read but not closed,
\* where it was; it dereferences resp, so a nil resp (RoundTrip failed)
\* panics
DumpResponse(d) ==
    /\ bg[d] = "DumpResponse"
    /\ Alive
    /\ IF rt[d][1].resp = Nil
       THEN /\ bg' = [bg EXCEPT ![d] = "panic: nil resp"]
            /\ body' = body
       ELSE IF rt[d][1].resp[1].Body.err # NilErr
       THEN /\ bg' = [bg EXCEPT ![d] = "send"]
            /\ body' = [body EXCEPT ![d].reads = @ + 1]
       ELSE /\ bg' = [bg EXCEPT ![d] = "send"]
            /\ body' = [body EXCEPT ![d].reads = @ + 1, ![d].closes = @ + 1,
                                    ![d].copied = TRUE]
    /\ UNCHANGED << pc, depth, ctxErr, tr, ch, rt, hret, sel, doneAtRT, ready, sends >>
    /\ UNCHANGED callVars
    /\ UNCHANGED otherVars

\* ch <- response{resp: resp, err: err}: panics on a closed channel and
\* blocks while the buffer is full
Send(d) ==
    /\ bg[d] = "send"
    /\ Alive
    /\ ch[d].closed \/ Len(ch[d].buf) < ch[d].cap
    /\ IF ch[d].closed
       THEN /\ bg' = [bg EXCEPT ![d] = "panic: send on closed channel"]
            /\ UNCHANGED << ch, sends >>
       ELSE /\ ch' = [ch EXCEPT ![d].buf = Append(@, rt[d][1])]
            /\ sends' = [sends EXCEPT ![d] = @ + 1]
            /\ bg' = [bg EXCEPT ![d] = "done"]
    /\ UNCHANGED << pc, depth, ctxErr, body, tr, rt, hret, sel, doneAtRT, ready >>
    /\ UNCHANGED callVars
    /\ UNCHANGED otherVars

\* ------------------------------------------------------------- the signal
\* the caller cancels the context, or its deadline passes
Fire(reason) ==
    /\ ctxErr = NilErr
    /\ pc # "done"
    /\ Alive
    /\ ctxErr' = reason
    /\ fires' = 1
    /\ UNCHANGED << pc, depth, body, peer, mock >>
    /\ UNCHANGED callVars
    /\ UNCHANGED handleVars

\* the signal is fired again (cancel called once more, or the deadline
\* passing after a cancel): the context keeps its first reason and Done
\* stays closed
FireAgain(reason) ==
    /\ ctxErr # NilErr
    /\ fires < MaxFires
    /\ pc # "done"
    /\ Alive
    /\ fires' = fires + 1
    /\ UNCHANGED << pc, depth, ctxErr, body, peer, mock >>
    /\ UNCHANGED callVars
    /\ UNCHANGED handleVars

\* ------------------------------------------- a second call of handle
\* Another goroutine calls a method of the same client with a context of
\* its own; peer is its call of handle, step by step as above.
doVars == << pc, depth, ctxErr, body, fires, mock >>

\* what the second call's RoundTrip may return
PeerAnswers ==
    {r \in RoundTripResults :
        r.resp = Nil \/ r.resp[1] = Response(200, "", Stream(JsonBody))}

\* handle, up to its select: its own channel, transport and goroutine
PeerHandleStart(hangs) ==
    /\ peer.pc = "idle"
    /\ Alive
    /\ peer' = [peer EXCEPT !.pc = "select",
                            !.ch = [made |-> TRUE, cap |-> ChanCap, buf |-> << >>,
                                    closed |-> FALSE],
                            !.tr = [NoTransport EXCEPT !.created = TRUE, !.hangs = hangs,
                                                       !.trips = 1],
                            !.bg = "RoundTrip"]
    /\ UNCHANGED << doVars, callVars, handleVars >>

\* select, case <-ctx.Done(), of the second call's own context
PeerSelectDone ==
    /\ peer.pc = "select"
    /\ Alive
    /\ peer.ctxErr # NilErr
    /\ peer' = [peer EXCEPT !.pc = "CancelRequest", !.sel = "ctx"]
    /\ UNCHANGED << doVars, callVars, handleVars >>

\* select, case r := <-ch
PeerSelectResult ==
    /\ peer.pc = "select"
    /\ Alive
    /\ Len(peer.ch.buf) > 0
    /\ peer' = [peer EXCEPT !.pc = "handleReturn", !.sel = "ch",
                            !.hret = Head(peer.ch.buf),
                            !.ch.buf = Tail(@)]
    /\ UNCHANGED << doVars, callVars, handleVars >>

\* the cancellation case: tr.CancelRequest(req) on its own transport
PeerCancelRequest ==
    /\ peer.pc = "CancelRequest"
    /\ Alive
    /\ peer' = [peer EXCEPT !.pc = "drain", !.tr.cancels = @ + 1]
    /\ UNCHANGED << doVars, callVars, handleVars >>

\* the cancellation case: <-ch, then err = ctx.Err()
PeerDrain ==
    /\ peer.pc = "drain"
    /\ Alive
    /\ Len(peer.ch.buf) > 0
    /\ peer' = [peer EXCEPT !.pc = "handleReturn", !.ch.buf = Tail(@),
                            !.hret.err = peer.ctxErr]
    /\ UNCHANGED << doVars, callVars, handleVars >>

\* handle returns: the deferred close(ch) runs
PeerHandleReturn ==
    /\ peer.pc = "handleReturn"
    /\ Alive
    /\ peer' = [peer EXCEPT !.pc = "returned", !.ch.closed = TRUE]
    /\ UNCHANGED << doVars, callVars, handleVars >>

\* resp, err := tr.RoundTrip(req) in the second call's goroutine
PeerRoundTripReturns(r) ==
    /\ peer.bg = "RoundTrip"
    /\ Alive
    /\ ~peer.tr.hangs \/ peer.tr.cancels > 0
    /\ peer' = [peer EXCEPT !.rt = Ptr(r),
                            !.bg = IF verbose THEN "DumpResponse" ELSE "send"]
    /\ UNCHANGED << doVars, callVars, handleVars >>

\* if h.verbose: httputil.DumpResponse(resp, true), which panics on nil
PeerDumpResponse ==
    /\ peer.bg = "DumpResponse"
    /\ Alive
    /\ peer' = [peer EXCEPT !.bg = IF peer.rt[1].resp = Nil THEN "panic: nil resp"
                                   ELSE "send"]
    /\ UNCHANGED << doVars, callVars, handleVars >>

\* ch <- response{resp: resp, err: err}
PeerSend ==
    /\ peer.bg = "send"
    /\ Alive
    /\ peer.ch.closed \/ Len(peer.ch.buf) < peer.ch.cap
    /\ peer' = IF peer.ch.closed
               THEN [peer EXCEPT !.bg = "panic: send on closed channel"]
               ELSE [peer EXCEPT !.bg = "done", !.ch.buf = Append(@, peer.rt[1])]
    /\ UNCHANGED << doVars, callVars, handleVars >>

\* the second call's context is cancelled, or its deadline passes
PeerFire(reason) ==
    /\ peer.ctxErr = NilErr
    /\ peer.pc # "returned"
    /\ Alive
    /\ peer' = [peer EXCEPT !.ctxErr = reason]
    /\ UNCHANGED << doVars, callVars, handleVars >>

\* any step of the second call
PeerStep ==
    \/ \E hangs \in BOOLEAN : PeerHandleStart(hangs)
    \/ PeerSelectDone
    \/ PeerSelectResult
    \/ PeerCancelRequest
    \/ PeerDrain
    \/ PeerHandleReturn
    \/ \E r \in PeerAnswers : PeerRoundTripReturns(r)
    \/ PeerDumpResponse
    \/ PeerSend
    \/ \E reason \in {Canceled, DeadlineExceeded} : PeerFire(reason)

Next ==
    \/ \E c \in Calls : CallDo(c)
    \/ DoNewRequest
    \/ DoAuth
    \/ \E hangs \in BOOLEAN : HandleStart(hangs)
    \/ SelectDone
    \/ SelectResult
    \/ CancelRequest
    \/ Drain
    \/ HandleReturn
    \/ DoHandleError
    \/ DoRedirect
    \/ DoProcess
    \/ DoReturn
    \/ \E d \in Frames : \E r \in Answers(d) : RoundTripReturns(d, r)
    \/ \E d \in Frames : DumpResponse(d)
    \/ \E d \in Frames : Send(d)
    \/ \E reason \in {Canceled, DeadlineExceeded} : Fire(reason)

Spec == Init /\ [][Next]_vars

\* ------------------------------------------------------------ properties
\* handle of frame d has started / has returned (its deferred close ran)
Started(d) == ch[d].made

Returned(d) == ch[d].closed

\* the pair handle returns on the cancellation path
CancelResult == [resp |-> Nil, err |-> ctxErr]

\* C1 (as stated): whenever the signal fired strictly before RoundTrip
\* completed, handle returns (nil, ctx.Err()), never the transport's result.
C1_CancelBeforeCompletionWins ==
    \A d \in Frames :
        Returned(d) /\ doneAtRT[d] => hret[d] = CancelResult

\* C1 (amended): whenever the signal has fired and the completion channel is
\* still empty at the moment handle's select chooses, handle returns
\* (nil, ctx.Err()) and never the transport's result.
C1_CancelWinsWhenOnlySignalReady ==
    \A d \in Frames :
        Returned(d) /\ ready[d] = {"ctx"} =>
            /\ hret[d] = CancelResult
            /\ hret[d].err \in {Canceled, DeadlineExceeded}
            /\ hret[d] # rt[d][1]

\* the signal fired before RoundTrip completed, only the signal was ready
\* at the select, and handle has returned
C1_Witness ==
    \E d \in Frames :
        /\ Returned(d) /\ doneAtRT[d] /\ ready[d] = {"ctx"}
        /\ rt[d][1].resp # Nil
        /\ hret[d] = [resp |-> Nil, err |-> DeadlineExceeded]

\* C2 (as stated): whenever RoundTrip completed before the signal fired,
\* handle returns exactly the pair RoundTrip produced.
C2_CompletionBeforeCancelWins ==
    \A d \in Frames :
        Returned(d) /\ ~doneAtRT[d] => hret[d] = rt[d][1]

\* C2 (amended): whenever the result is in the completion channel and the
\* signal has not fired at the moment handle's select chooses, handle
\* returns exactly the pair RoundTrip produced.
C2_ResultWinsWhenOnlyResultReady ==
    \A d \in Frames :
        Returned(d) /\ ready[d] = {"ch"} =>
            /\ rt[d] # Nil
            /\ hret[d] = rt[d][1]

\* RoundTrip completed first, the signal fired after handle's select had
\* chosen, and handle returned the transport's pair
C2_Witness ==
    \E d \in Frames :
        /\ Returned(d) /\ ~doneAtRT[d] /\ ready[d] = {"ch"}
        /\ ctxErr # NilErr
        /\ hret[d] = rt[d][1]
        /\ hret[d].resp # Nil

\* C3: when handle has returned, on either path, its goroutine has finished
\* RoundTrip and has delivered the result to the channel.
C3_BackgroundDoneAtReturn ==
    \A d \in Frames :
        (pc = "handleReturn" /\ d = depth) \/ Returned(d) =>
            /\ bg[d] = "done"
            /\ rt[d] # Nil
            /\ sends[d] = 1

\* handle returned on the cancellation path of a transport that hung
C3_Witness ==
    \E d \in Frames :
        Returned(d) /\ sel[d] = "ctx" /\ tr[d].hangs /\ bg[d] = "done"

\* C4: handle calls CancelRequest exactly once on the cancellation path,
\* before it waits for the result, and never on the completion path.
C4_AbortOnceOnCancelPath ==
    \A d \in Frames :
        /\ sel[d] \in {"none", "ch"} => tr[d].cancels = 0
        /\ sel[d] = "ctx" =>
              tr[d].cancels = (IF d = depth /\ pc = "CancelRequest" THEN 0 ELSE 1)
        /\ d = depth /\ pc = "drain" => tr[d].cancels = 1 /\ sel[d] = "ctx"

\* handle returned on the cancellation path while another frame's handle
\* had returned on the completion path
C4_Witness ==
    \E d, e \in Frames :
        /\ Returned(d) /\ sel[d] = "ctx" /\ tr[d].cancels = 1
        /\ Returned(e) /\ sel[e] = "ch" /\ tr[e].cancels = 0

\* C5: when Do has returned, every response a transport produced has had
\* its body read at most once and closed exactly once.
C5_BodyReleasedOnEveryPath ==
    pc = "done" =>
        \A d \in Frames :
            rt[d] # Nil /\ rt[d][1].resp # Nil =>
                /\ body[d].reads <= 1 /\ body[d].closes = 1
                /\ body[d].copyReads <= 1 /\ body[d].copyCloses <= 1

\* C6: the goroutine sends exactly once; its send finds the channel open
\* and with a free slot; handle closes the channel after receiving it.
C6_ExactlyOneSend ==
    \A d \in Frames :
        /\ sends[d] <= 1
        /\ bg[d] # "panic: send on closed channel"
        /\ bg[d] = "send" => ~ch[d].closed /\ Len(ch[d].buf) < ch[d].cap
        /\ bg[d] = "done" => sends[d] = 1
        /\ Returned(d) => sends[d] = 1 /\ ch[d].buf = << >>

\* the goroutine has sent, the result is in the channel and handle has
\* already taken the cancellation case
C6_Witness ==
    \E d \in Frames :
        bg[d] = "done" /\ Len(ch[d].buf) = 1 /\ d = depth /\ pc = "drain"

\* C7: handle returns either the transport's pair or (nil, ctx.Err()),
\* decided by the select case taken, and never a mixture of the two.
C7_OneBranchDecides ==
    \A d \in Frames :
        Returned(d) =>
            \/ sel[d] = "ch" /\ hret[d] = rt[d][1]
            \/ /\ sel[d] = "ctx"
               /\ hret[d] = CancelResult
               /\ ch[d].buf = << >>

\* both cases were ready, the cancellation case was taken and the
\* transport's response was dropped
C7_Witness ==
    \E d \in Frames :
        /\ Returned(d) /\ sel[d] = "ctx" /\ ready[d] = {"ctx", "ch"}
        /\ rt[d][1].resp # Nil
        /\ hret[d].resp = Nil

\* C8: once handle has returned the signal's reason, no later frame is
\* entered (no request, transport or goroutine) and Do returns that reason.
C8_CancelIsTerminal ==
    \A d \in Frames :
        Returned(d) /\ sel[d] = "ctx" =>
            /\ depth <= d
            /\ \A e \in Frames :
                  e > d => ~tr[e].created /\ bg[e] = "none" /\ args[e] = NoArgs
            /\ (pc = "afterHandle" /\ depth = d)
                  \/ (pc \in {"return", "done"} /\ ret = hret[d].err
                        /\ ret \in {Canceled, DeadlineExceeded})

\* Do has returned the cancellation error after following a redirect
C8_Witness ==
    /\ pc = "done"
    /\ Alive
    /\ ret = Canceled
    /\ Returned(2) /\ sel[2] = "ctx"
    /\ sel[1] = "ch"

\* Do has classified the response of frame d (it has drained its body)
Classified(d) == deferred[d] /\ body[d].drained

\* the status codes the classification is compared on
StatusRange == (0 - MaxStatus)..MaxStatus

\* C10: ok(s) holds exactly for 200 <= s < 300, and Do decodes a response
\* (rather than answering with an ErrorMessage or following a redirect)
\* exactly when ok holds of its status and the status is not 302.
C10_StatusClassification ==
    /\ \A d \in Frames :
          rt[d] # Nil /\ rt[d][1].resp # Nil =>
              LET s == rt[d][1].resp[1].StatusCode
              IN  ok(s) <=> (200 <= s /\ s < 300)
    /\ pc = "idle" => \A s \in StatusRange : ok(s) <=> (200 <= s /\ s < 300)
    /\ \A d \in Frames :
          Returned(d) /\ hret[d].resp # Nil /\ pc \in {"return", "done"} =>
              LET s == hret[d].resp[1].StatusCode
                  success == ok(s) /\ s # StatusFound
              IN  /\ success <=> (Classified(d) /\ ret.kind # "ErrorMessage")
                  /\ success <=> (200 <= s /\ s < 300)
                  /\ ~success /\ s # StatusFound =>
                        ret.kind = "ErrorMessage" /\ ret.StatusCode = s
                  /\ s = StatusFound => ~Classified(d)

\* Do decoded a 299 answer into its target
C10_Witness ==
    \E d \in Frames :
        /\ pc = "done" /\ Classified(d)
        /\ hret[d].resp[1].StatusCode = 299
        /\ ret = NilErr /\ v.val = JsonBody

\* handle of frame d handed Do a 302 response, and Do has acted on it
Redirected(d) ==
    /\ Returned(d)
    /\ hret[d].err = NilErr
    /\ hret[d].resp # Nil
    /\ hret[d].resp[1].StatusCode = StatusFound
    /\ ~(d = depth /\ pc = "afterHandle")

\* C11: on a 302, whatever the method, parameters and payload were, Do
\* calls itself as a GET of the Location header with no parameters and no
\* payload, with the same target; what the nested call returns is what Do
\* returns; the 302 response is neither drained and decoded nor made an
\* ErrorMessage.
C11_RedirectReissuesAsGet ==
    /\ [](\A d \in Frames :
            Redirected(d) =>
                /\ d < MaxDepth
                /\ args[d + 1] = [method |-> "GET", path |-> hret[d].resp[1].Location,
                                  params |-> "nil", payload |-> "nil"]
                /\ req[d + 1] # Nil =>
                      /\ req[d + 1][1].Method = "GET"
                      /\ req[d + 1][1].URL = [base |-> hret[d].resp[1].Location, query |-> ""]
                      /\ req[d + 1][1].Body = ""
                /\ ~Classified(d)
                /\ (\A e \in Frames : e > d => ~Classified(e)) => v.val = ""
                /\ ret.kind = "ErrorMessage" => ret.StatusCode # StatusFound)
    /\ [][depth' < depth => ret' = ret]_vars
    /\ [][pc # "idle" => v'.type = v.type]_vars

\* a POST with a payload was answered 302, the GET of its Location was
\* answered 200, and Do has returned the nested call's result
C11_Witness ==
    /\ pc = "done"
    /\ args[1].method = "POST" /\ args[1].payload = "value"
    /\ Redirected(1)
    /\ hret[1].resp[1].Location = "http://b"
    /\ args[2].method = "GET" /\ args[2].payload = "nil"
    /\ Classified(2) /\ hret[2].resp[1].StatusCode = 200
    /\ ret = NilErr /\ v.val = JsonBody

\* Do has returned after handle of frame d handed it a response whose
\* status is neither 2xx nor 302
Failed(d) ==
    /\ Returned(d)
    /\ hret[d].err = NilErr
    /\ hret[d].resp # Nil
    /\ ~ok(hret[d].resp[1].StatusCode)
    /\ hret[d].resp[1].StatusCode # StatusFound
    /\ pc \in {"return", "done"}

\* C12: for a response whose status is neither 2xx nor 302, Do drains the
\* body and returns an ErrorMessage with that status and with the complete
\* body the server wrote as Data; it enters no further frame and leaves the
\* target unwritten.
C12_ErrorStatusSurfaced ==
    \A d \in Frames :
        Failed(d) =>
            /\ Classified(d)
            /\ ret = ErrorMessage(hret[d].resp[1].StatusCode,
                                  hret[d].resp[1].Body.content)
            /\ v.val = ""
            /\ \A e \in Frames : e > d => ~Started(e) /\ args[e] = NoArgs

\* Do was called in frame d with an empty path, and newRequest has run
EmptyTarget(d) ==
    /\ args[d] # NoArgs
    /\ args[d].path = ""
    /\ ~(d = depth /\ pc = "newRequest")

\* C13: with an empty path newRequest answers EmptyPathErr whatever the
\* payload (an unencodable one included), and Do returns EmptyPathErr with
\* no request built, authFunc not invoked for the frame, no transport, no
\* channel and no goroutine.
C13_EmptyPathFailsFirst ==
    /\ pc = "idle" =>
          \A c \in Calls :
              newRequest(UserAgent, c.method, "", c.params, c.payload)
                  = [req |-> Nil, err |-> EmptyPathErr]
    /\ \A d \in Frames :
          EmptyTarget(d) =>
              /\ pc \in {"return", "done"}
              /\ ret = EmptyPathErr
              /\ req[d] = Nil
              /\ authCalls = (IF authFunc = "nil" THEN 0 ELSE d - 1)
              /\ ~tr[d].created /\ ~ch[d].made
              /\ bg[d] = "none" /\ rt[d] = Nil /\ sends[d] = 0

\* a POST of an unencodable payload to the empty path, by a client with an
\* authFunc, has returned EmptyPathErr
C13_Witness ==
    /\ pc = "done"
    /\ EmptyTarget(1)
    /\ args[1].method = "POST" /\ args[1].payload = "unencodable"
    /\ authFunc = "sign"
    /\ ret = EmptyPathErr

\* RoundTrip of frame d returned an error, and handle has returned
TransportFailed(d) == Returned(d) /\ rt[d] # Nil /\ rt[d][1].err # NilErr

\* no frame after d was entered: no arguments, request, transport, channel
\* or goroutine
NothingAfter(d) ==
    \A e \in Frames :
        e > d => /\ args[e] = NoArgs /\ req[e] = Nil
                 /\ ~tr[e].created /\ ~ch[e].made /\ bg[e] = "none"

\* C14 (as stated): RoundTrip is called at most once per handle call, and
\* an error it returns is what handle and Do return, that very value, with
\* no further transport or frame.
C14_TransportErrorVerbatim ==
    \A d \in Frames :
        /\ tr[d].trips <= 1
        /\ TransportFailed(d) =>
              /\ hret[d].err = rt[d][1].err
              /\ pc \in {"return", "done"} => ret = rt[d][1].err
              /\ NothingAfter(d)

\* C14 (amended): RoundTrip is called at most once per handle call and
\* after an error from it no further transport or frame is used; handle
\* and Do return that very error when handle's select takes the result
\* case, and ctx.Err() when it takes the cancellation case.
C14_TransportErrorVerbatimUnlessCancelled ==
    \A d \in Frames :
        /\ tr[d].trips <= 1
        /\ Started(d) => tr[d].trips = 1
        /\ TransportFailed(d) =>
              /\ NothingAfter(d)
              /\ sel[d] = "ch" =>
                    /\ hret[d] = [resp |-> Nil, err |-> rt[d][1].err]
                    /\ pc \in {"return", "done"} => ret = rt[d][1].err /\ ret = NetErr
              /\ sel[d] = "ctx" =>
                    /\ hret[d] = CancelResult
                    /\ pc \in {"return", "done"} => ret = ctxErr

\* Do has returned the error of a failed RoundTrip although the signal
\* had fired by then
C14_Witness ==
    \E d \in Frames :
        /\ pc = "done"
        /\ TransportFailed(d) /\ sel[d] = "ch"
        /\ tr[d].trips = 1
        /\ ctxErr # NilErr
        /\ ret = NetErr

\* what newRequest answers for the arguments of frame d
Built(d) ==
    newRequest(UserAgent, args[d].method, args[d].path, args[d].params, args[d].payload)

\* Do drained the body of frame d's response and a Read of it failed
BodyReadFailed(d) == Classified(d) /\ hret[d].resp[1].Body.err # NilErr

\* Do passed the body of frame d's 2xx response to marshal with a target
\* that takes JSON, and the bytes were not JSON
DecodeFailed(d) ==
    /\ Classified(d)
    /\ ok(hret[d].resp[1].StatusCode)
    /\ v.type = "*struct"
    /\ ~ValidJson(body[d].data)

\* C15: once Do has returned, every failure that occurred while it ran (a
\* request that could not be built, a payload that could not be encoded, a
\* failed RoundTrip, the signal, a status that is not 2xx, a failed Read of
\* the body, bytes that could not be decoded) shows in a non-nil error of
\* that kind.
C15_NoErrorSwallowed ==
    pc = "done" =>
        \A d \in Frames :
            /\ args[d] # NoArgs /\ Built(d).err # NilErr => ret = Built(d).err
            /\ TransportFailed(d) => ret \in {NetErr, Canceled, DeadlineExceeded}
            /\ Returned(d) /\ sel[d] = "ctx" => ret \in {Canceled, DeadlineExceeded}
            /\ Failed(d) => ret.kind = "ErrorMessage"
            /\ BodyReadFailed(d) => ret # NilErr
            /\ DecodeFailed(d) => ret = DecodeErr

\* C17 (as stated): whenever the signal fired before RoundTrip completed,
\* Do returns the cancellation error and the target is as it was before
\* the call.
C17_NoPartialResultOnCancel ==
    \A d \in Frames :
        Returned(d) /\ doneAtRT[d] /\ pc = "done" =>
            /\ ret = ctxErr
            /\ v.val = ""

\* C17 (amended): whenever the signal has fired and the result is not yet
\* in the channel when handle's select chooses, the select takes the
\* cancellation case; and whenever it takes the cancellation case, Do
\* returns ctx.Err() without draining or decoding any response of that
\* frame, and the target is as it was before the call.
C17_NoPartialResultWhenCancelTaken ==
    \A d \in Frames :
        /\ Returned(d) /\ ready[d] = {"ctx"} => sel[d] = "ctx"
        /\ Returned(d) /\ sel[d] = "ctx" =>
              /\ ~Classified(d) /\ ~deferred[d]
              /\ body[d].data = ""
              /\ v.val = ""
              /\ pc \in {"return", "done"} =>
                    ret = ctxErr /\ ret \in {Canceled, DeadlineExceeded}

\* the signal fired before RoundTrip handed back a 200 response with a JSON
\* body; handle took the cancellation case and Do has returned Canceled
\* with the JSON target unwritten
C17_Witness ==
    /\ pc = "done"
    /\ doneAtRT[1] /\ ready[1] = {"ctx"} /\ sel[1] = "ctx"
    /\ rt[1][1].resp # Nil
    /\ rt[1][1].resp[1] = Response(200, "", Stream(JsonBody))
    /\ v = [type |-> "*struct", val |-> ""]
    /\ ret = Canceled

\* the frames whose request has been through Do's step 2
Authorized == {d \in Frames : req[d] # Nil /\ ~(d = depth /\ pc = "auth")}

\* the request Do hands to handle in frame d: what authFunc returned for
\* the request newRequest built, or that request itself without authFunc
Outgoing(d) ==
    IF authFunc = "nil" THEN Built(d).req ELSE Ptr(Authorize(Built(d).req[1]))

\* C18: authFunc is invoked once for every request built, after newRequest
\* and before handle; the request given to RoundTrip and to CancelRequest
\* is the one authFunc returned; without authFunc the request newRequest
\* built is given to them unchanged.
C18_AuthOncePerRequest ==
    /\ authCalls = (IF authFunc = "nil" THEN 0 ELSE Cardinality(Authorized))
    /\ \A d \in Frames :
          /\ d = depth /\ pc = "auth" => req[d] = Built(d).req /\ ~Started(d)
          /\ d \in Authorized => req[d] = Outgoing(d)
          /\ Started(d) =>
                /\ d \in Authorized
                /\ tr[d].sent = Outgoing(d)
                /\ tr[d].trips = 1
          /\ tr[d].cancels > 0 => tr[d].aborted = Outgoing(d)
          /\ tr[d].cancels = 0 => tr[d].aborted = Nil

\* a client with an authFunc followed a redirect and the signal fired: both
\* requests were signed once each, and the second one was sent and aborted
C18_Witness ==
    /\ pc = "done"
    /\ authFunc = "sign"
    /\ authCalls = 2
    /\ Redirected(1)
    /\ tr[1].sent # Nil /\ tr[1].sent[1].Authorization = "token"
    /\ tr[2].sent # Nil /\ tr[2].sent[1].Authorization = "token"
    /\ tr[2].cancels = 1 /\ tr[2].aborted = tr[2].sent

\* what Do returns for the pair RoundTrip produced in frame d, when that
\* pair is not a 302: the transport's error, an ErrorMessage, or what
\* decoding the drained bytes into the target gives
ResponseOutcome(d) ==
    LET r == rt[d][1]
    IN  IF r.err # NilErr THEN r.err
        ELSE IF ~ok(r.resp[1].StatusCode)
        THEN ErrorMessage(r.resp[1].StatusCode, body[d].data)
        ELSE IF v.type = "nil" THEN NilErr
        ELSE marshal(body[d].data, [type |-> v.type, val |-> ""]).err

\* C20: while the signal has not fired, handle has returned only after
\* RoundTrip returned and its result was delivered, with no CancelRequest,
\* and returns RoundTrip's pair; and Do, whatever the method, returns only
\* after every handle it called, with the outcome of the last response.
C20_WaitsForTransport ==
    ctxErr = NilErr =>
        \A d \in Frames :
            /\ Returned(d) =>
                  /\ rt[d] # Nil /\ bg[d] = "done"
                  /\ ~tr[d].hangs /\ tr[d].cancels = 0
                  /\ sel[d] = "ch"
                  /\ hret[d] = rt[d][1]
            /\ Started(d) /\ (d < depth \/ pc \in {"afterHandle", "return", "done"}) =>
                  Returned(d)
            /\ Started(d) /\ NothingAfter(d) /\ pc \in {"return", "done"} =>
                  ret = ResponseOutcome(d)

\* a PUT whose signal never fired has returned after its transport
\* answered 200, with the body decoded into the target
C20_Witness ==
    /\ pc = "done"
    /\ ctxErr = NilErr
    /\ args[1].method = "PUT"
    /\ Returned(1) /\ ~tr[1].hangs
    /\ hret[1].resp # Nil /\ hret[1].resp[1].StatusCode = 200
    /\ ret = NilErr /\ v.val = JsonBody

\* Do has returned after handle of frame d handed it a 2xx response
Succeeded(d) ==
    /\ Returned(d)
    /\ hret[d].err = NilErr
    /\ hret[d].resp # Nil
    /\ ok(hret[d].resp[1].StatusCode)
    /\ pc \in {"return", "done"}

\* C23: on a 2xx Do decodes by the type of the target: with none it decodes
\* nothing and returns nil; a *[]byte holds the bytes read from the body and
\* a *string the same bytes as a string, both with a nil error whatever the
\* bytes are; any other target holds what json.Unmarshal makes of the
\* bytes, and when they are not JSON Do returns the parse error and the
\* target is left as it was.
C23_DecodeByTargetType ==
    \A d \in Frames :
        Succeeded(d) =>
            /\ Classified(d)
            /\ CASE v.type = "nil" -> ret = NilErr /\ v.val = ""
                 [] v.type \in {"*[]byte", "*string"} ->
                        ret = NilErr /\ v.val = body[d].data
                 [] OTHER ->
                        IF ValidJson(body[d].data)
                        THEN ret = NilErr /\ v.val = Unmarshal(body[d].data)
                        ELSE ret = DecodeErr /\ v.val = ""

\* a *[]byte target holds a body that is not JSON, and Do returned nil
C23_Witness ==
    /\ pc = "done"
    /\ Succeeded(1)
    /\ v.type = "*[]byte"
    /\ v.val = "oops"
    /\ ret = NilErr

\* the User-Agent strings a caller may hand to newRequest
UserAgents == {UserAgent, "test-agent"}

\* the header of a request carries the one User-Agent given, the one
\* Accept: application/json and, when the request has a body, the one
\* Content-Type: application/json
HeaderAsSet(r, userAgent) ==
    /\ r.Header["User-Agent"] = << userAgent >>
    /\ r.Header["Accept"] = << "application/json" >>
    /\ r.Body # "" => r.Header["Content-Type"] = << "application/json" >>

\* C24: every request newRequest builds has User-Agent set to the string it
\* was given, Accept set to application/json and, when it has a body,
\* Content-Type set to application/json; each of the three has that one
\* value and no other beside it, and the requests Do sends carry them too.
C24_HeadersSet ==
    /\ pc = "idle" =>
          \A ua \in UserAgents : \A c \in Calls :
              LET r == newRequest(ua, c.method, c.path, c.params, c.payload)
              IN  r.err = NilErr => HeaderAsSet(r.req[1], ua)
    /\ \A d \in Frames : req[d] # Nil => HeaderAsSet(req[d][1], UserAgent)

\* a POST with a body was sent with the three header fields
C24_Witness ==
    /\ req[1] # Nil
    /\ req[1][1].Method = "POST"
    /\ req[1][1].Body = JsonBody
    /\ tr[1].sent = req[1]
    /\ req[1][1].Header = [k \in HeaderKeys |->
                             IF k = "User-Agent" THEN << UserAgent >>
                             ELSE << "application/json" >>]

\* url.Values.Encode of the parameters joined with a query already there
MergeQuery(query, params) ==
    IF query = "" THEN params ELSE params \o "&" \o query

\* C25: when parameters are given, the request's address is the path with
\* the parameters merged into its query, the query the path already
\* carries being kept beside them; with no parameters the address is the
\* path as given.
C25_ParamsMergedIntoQuery ==
    \A d \in Frames :
        req[d] # Nil =>
            LET u == ParseUrl(args[d].path)
            IN  IF args[d].params = "nil"
                THEN req[d][1].URL = u
                ELSE req[d][1].URL =
                       [base |-> u.base, query |-> MergeQuery(u.query, args[d].params)]

\* frame d was answered with a 302 that carries no Location, and Do has
\* gone on from it
EmptyRedirect(d) ==
    /\ Redirected(d)
    /\ hret[d].resp[1].Location = ""

\* the Body frame d's response holds when Do returns was closed, once
Released(d) ==
    IF body[d].copied THEN body[d].copyCloses = 1 /\ body[d].closes = 1
    ELSE body[d].closes = 1

\* C27: after a 302 without a Location the nested Get builds no request,
\* makes no channel, takes no transport and starts no goroutine; Do
\* returns EmptyPathErr; and once the redirected frame has returned, the
\* body of its 302 response has been closed.
C27_EmptyLocationFails ==
    \A d \in Frames :
        d < MaxDepth /\ EmptyRedirect(d) =>
            /\ args[d + 1].path = ""
            /\ req[d + 1] = Nil
            /\ ~Started(d + 1) /\ ~tr[d + 1].created /\ bg[d + 1] = "none"
            /\ pc \in {"return", "done"} => ret = EmptyPathErr
            /\ depth >= d => body[d].closes + body[d].copyCloses <= 1
            /\ depth < d => Released(d)

\* Do has returned EmptyPathErr after a 302 without a Location, with the
\* 302's body closed and no second transport
C27_Witness ==
    /\ pc = "done"
    /\ EmptyRedirect(1)
    /\ ret = EmptyPathErr
    /\ Released(1)
    /\ ~tr[2].created

\* C28: with verbose on as with verbose off, the goroutine of every handle
\* call gets from RoundTrip's return to its one send, whatever RoundTrip
\* returned and whenever the signal fired, and a call that has returned
\* holds (nil, ctx.Err()) or the pair RoundTrip returned, after exactly one
\* send.
C28_VerboseChangesNothing ==
    \A d \in Frames :
        /\ bg[d] \notin Panics
        /\ rt[d] # Nil => bg[d] \in {"DumpResponse", "send", "done"}
        /\ bg[d] = "done" => sends[d] = 1
        /\ Returned(d) =>
              /\ sends[d] = 1
              /\ hret[d] \in {CancelResult, rt[d][1]}

\* ---------------------------------------------------------------- fairness
\* any step of the calling goroutine
CallerStep ==
    \/ DoNewRequest
    \/ DoAuth
    \/ \E hangs \in BOOLEAN : HandleStart(hangs)
    \/ SelectDone
    \/ SelectResult
    \/ CancelRequest
    \/ Drain
    \/ HandleReturn
    \/ DoHandleError
    \/ DoRedirect
    \/ DoProcess
    \/ DoReturn

\* The Go scheduler runs every goroutine that can take a step, and a
\* transport that answers by itself, or whose request was cancelled, returns
\* from RoundTrip.  Nothing obliges the signal to fire.
Fairness ==
    /\ WF_vars(CallerStep)
    /\ \A d \in Frames : WF_vars(DumpResponse(d))
    /\ \A d \in Frames : WF_vars(Send(d))
    /\ \A d \in Frames : WF_vars(\E r \in Answers(d) : RoundTripReturns(d, r))

\* the same steps, for the calls of PlainCalls by a client without authFunc
PlainInit == Init /\ authFunc = "nil"

PlainNext ==
    \/ \E c \in PlainCalls : CallDo(c)
    \/ CallerStep
    \/ \E d \in Frames : \E r \in Answers(d) : RoundTripReturns(d, r)
    \/ \E d \in Frames : DumpResponse(d)
    \/ \E d \in Frames : Send(d)
    \/ \E reason \in {Canceled, DeadlineExceeded} : Fire(reason)

FairSpec == PlainInit /\ [][PlainNext]_vars /\ Fairness

\* the calls of PlainCalls with a signal that may be fired more than once
RefireNext ==
    \/ PlainNext
    \/ \E reason \in {Canceled, DeadlineExceeded} : FireAgain(reason)

RefireSpec == PlainInit /\ [][RefireNext]_vars

\* C19: a second firing of the signal changes nothing a handle call shows:
\* ctx.Err() stays the first reason, the step that fires again changes no
\* other variable, and a call that took the cancellation case has called
\* CancelRequest once, received from the channel once and returned
\* (nil, ctx.Err()), however often the signal fired.
C19_RefireIsIdempotent ==
    /\ [](\A d \in Frames :
            /\ tr[d].cancels <= 1
            /\ Returned(d) /\ sel[d] = "ctx" =>
                  /\ tr[d].cancels = 1
                  /\ sends[d] = 1 /\ ch[d].buf = << >>
                  /\ hret[d] = CancelResult)
    /\ [][ctxErr # NilErr => ctxErr' = ctxErr]_vars
    /\ [][fires >= 1 /\ fires' # fires =>
            UNCHANGED << pc, depth, ctxErr, body, peer, mock, callVars, handleVars >>]_vars

\* the signal was fired twice and Do has returned the reason of the first
\* firing after one CancelRequest
C19_Witness ==
    /\ pc = "done"
    /\ fires = MaxFires
    /\ sel[1] = "ctx" /\ Returned(1)
    /\ tr[1].cancels = 1 /\ sends[1] = 1
    /\ ret = Canceled

\* two calls at the same time: the calls of PlainCalls and, beside them, the
\* second call of handle with its own context
ConcNext ==
    \/ PlainNext
    \/ PeerStep

ConcSpec == PlainInit /\ [][ConcNext]_vars

\* the calling goroutine is inside handle of frame d, whose RoundTrip has
\* returned a response: nothing but the scheduler keeps it from returning
AboutToReturn(d) ==
    /\ d = depth
    /\ pc \in {"select", "CancelRequest", "drain", "handleReturn"}
    /\ rt[d] # Nil /\ rt[d][1].resp # Nil

\* the same of the second call
PeerAboutToReturn ==
    /\ peer.pc \in {"select", "CancelRequest", "drain", "handleReturn"}
    /\ peer.rt # Nil /\ peer.rt[1].resp # Nil

\* C16: two handle calls running at the same time share nothing.  A call's
\* transport is aborted only when its own signal has fired; a call whose
\* signal has not fired returns what its own RoundTrip produced; and a call
\* whose RoundTrip has handed back a response is never kept from returning
\* because the other call's signal fired (the other call's hanging
\* RoundTrip was aborted and its goroutine stopped the program).
C16_CallsIndependent ==
    /\ peer.tr.cancels > 0 => peer.ctxErr # NilErr
    /\ \A d \in Frames : tr[d].cancels > 0 => ctxErr # NilErr
    /\ peer.pc = "returned" /\ peer.ctxErr = NilErr =>
          peer.hret = peer.rt[1] /\ peer.sel = "ch" /\ peer.tr.cancels = 0
    /\ \A d \in Frames :
          Returned(d) /\ ctxErr = NilErr =>
              hret[d] = rt[d][1] /\ sel[d] = "ch" /\ tr[d].cancels = 0
    /\ \A d \in Frames :
          tr[d].hangs /\ tr[d].cancels > 0 /\ bg[d] \in Panics => ~PeerAboutToReturn
    /\ peer.tr.hangs /\ peer.tr.cancels > 0 /\ peer.bg \in Panics =>
          \A d \in Frames : ~AboutToReturn(d)

\* ------------------------------------------------- the mock transporter
\* The tests replace newTransporter by NewMockTransporter's closure, so the
\* transport of a call is a mockTransporter: its RoundTrip waits for m.done
\* or for a timer of the configured delay, and its CancelRequest closes
\* m.done.  handle calls CancelRequest on the calling goroutine while
\* RoundTrip, and the CancelRequest RoundTrip defers, run on the background
\* one; the mock has no lock, so their statements interleave one by one.

\* what the test's mock is configured to return: a 200 with a JSON body
MockResult == [resp |-> Ptr(Response(200, "", Stream(JsonBody))), err |-> NilErr]

\* the goroutines that call the mock's CancelRequest
Cancellers == {"exec", "defer"}

\* RoundTrip up to its select: the timer is started, CancelRequest is
\* deferred, and the select evaluates its channel operand m.done once; a
\* nil channel is never ready
MockRoundTripSelect ==
    /\ bg[1] = "RoundTrip"
    /\ Alive
    /\ mock.rt = "idle"
    /\ mock' = [mock EXCEPT !.rt = "select",
                            !.sees = IF mock.ref THEN "chan" ELSE "nil"]
    /\ UNCHANGED << pc, depth, ctxErr, body, peer, fires >>
    /\ UNCHANGED callVars
    /\ UNCHANGED handleVars

\* select, case <-m.done: the channel the select holds was closed
MockWakeByDone ==
    /\ mock.rt = "select"
    /\ Alive
    /\ mock.sees = "chan"
    /\ mock.done = "closed"
    /\ mock' = [mock EXCEPT !.rt = "deferred", !.woken = "done"]
    /\ UNCHANGED << pc, depth, ctxErr, body, peer, fires >>
    /\ UNCHANGED callVars
    /\ UNCHANGED handleVars

\* CancelRequest: m.req = req; if m.done != nil
MockCancelCheck(who) ==
    /\ Alive
    /\ mock.cr[who] = "idle"
    /\ IF who = "exec"
       THEN pc = "drain" /\ depth = 1 /\ tr[1].cancels > 0
       ELSE mock.rt = "deferred"
    /\ mock' = [mock EXCEPT !.cr[who] = IF mock.ref THEN "close" ELSE "returned"]
    /\ UNCHANGED << pc, depth, ctxErr, body, peer, fires >>
    /\ UNCHANGED callVars
    /\ UNCHANGED handleVars

\* CancelRequest: close(m.done), which reads m.done again; closing a nil
\* channel or a closed one panics
MockCancelClose(who) ==
    /\ Alive
    /\ mock.cr[who] = "close"
    /\ mock' =
         IF ~mock.ref
         THEN [mock EXCEPT !.closes = @ + 1, !.panic = "panic: close of nil channel"]
         ELSE IF mock.done = "closed"
         THEN [mock EXCEPT !.closes = @ + 1, !.panic = "panic: close of closed channel"]
         ELSE [mock EXCEPT !.closes = @ + 1, !.done = "closed", !.cr[who] = "setnil"]
    /\ UNCHANGED << pc, depth, ctxErr, body, peer, fires >>
    /\ UNCHANGED callVars
    /\ UNCHANGED handleVars

\* CancelRequest: m.done = nil, and the call returns
MockCancelSetNil(who) ==
    /\ Alive
    /\ mock.cr[who] = "setnil"
    /\ mock' = [mock EXCEPT !.ref = FALSE, !.cr[who] = "returned"]
    /\ UNCHANGED << pc, depth, ctxErr, body, peer, fires >>
    /\ UNCHANGED callVars
    /\ UNCHANGED handleVars

\* RoundTrip returns (m.resp, m.err) once its deferred calls have run
MockRoundTripReturns ==
    /\ mock.rt = "deferred"
    /\ mock.cr["defer"] = "returned"
    /\ RoundTripReturns(1, MockResult)

\* handle's <-ch, which follows the return of tr.CancelRequest(req)
MockDrain ==
    /\ mock.cr["exec"] = "returned"
    /\ Drain

\* the steps the two goroutines of a call on the mock take by themselves
MockGoroutineStep ==
    \/ DoNewRequest
    \/ DoAuth
    \/ HandleStart(FALSE)
    \/ SelectDone
    \/ SelectResult
    \/ CancelRequest
    \/ MockDrain
    \/ HandleReturn
    \/ DoHandleError
    \/ DoProcess
    \/ DoReturn
    \/ MockRoundTripSelect
    \/ MockWakeByDone
    \/ \E who \in Cancellers : MockCancelCheck(who)
    \/ \E who \in Cancellers : MockCancelClose(who)
    \/ \E who \in Cancellers : MockCancelSetNil(who)
    \/ MockRoundTripReturns
    \/ DumpResponse(1)
    \/ Send(1)

\* select, case <-timer.C: the delay is long beside the goroutines' steps,
\* so the timer fires only when neither goroutine can take a step
MockWakeByTimer ==
    /\ mock.rt = "select"
    /\ Alive
    /\ ~ENABLED MockGoroutineStep
    /\ mock' = [mock EXCEPT !.rt = "deferred", !.woken = "timer",
                            !.late = (ctxErr # NilErr)]
    /\ UNCHANGED << pc, depth, ctxErr, body, peer, fires >>
    /\ UNCHANGED callVars
    /\ UNCHANGED handleVars

\* the calls of PlainCalls on a client whose transport is the mock
MockNext ==
    \/ \E c \in PlainCalls : CallDo(c)
    \/ MockGoroutineStep
    \/ MockWakeByTimer
    \/ \E reason \in {Canceled, DeadlineExceeded} : Fire(reason)

MockSpec == PlainInit /\ [][MockNext]_vars

\* the signal fired before the mock's delay had elapsed
SignalBeforeDelay == ctxErr # NilErr /\ (mock.woken = "timer" => mock.late)

\* C21: with the mock as transport and the signal fired before the delay
\* has elapsed, RoundTrip is woken by the abort (the close of m.done), never
\* by its timer, and Do returns the signal's reason.
C21_MockCancelledWithoutDelay ==
    SignalBeforeDelay =>
        /\ mock.woken \in {"none", "done"}
        /\ pc = "done" /\ Started(1) => ret = ctxErr

\* C29: however handle's CancelRequest interleaves with the background
\* RoundTrip and the CancelRequest it defers, close(m.done) is executed at
\* most once, no close panics, and what RoundTrip returns is the configured
\* response and error.
C29_MockClosesDoneOnce ==
    /\ mock.closes <= 1
    /\ mock.panic = ""
    /\ rt[1] # Nil => rt[1][1] = MockResult

\* ------------------------------------------------- a redirecting server
\* a server that answers every request with a 302 and a Location
LoopAnswers ==
    {[resp |-> Ptr(Response(StatusFound, l, Stream("moved"))), err |-> NilErr] :
        l \in Locations \ {""}}

\* the calls from which Do builds a request
LoopCalls == {c \in Calls : c.path = "http://a" /\ c.payload # "unencodable"}

\* Do against that server, with a signal that never fires; the bound
\* MaxDepth stops the last frame at its redirect
LoopNext ==
    \/ \E c \in LoopCalls : CallDo(c)
    \/ DoNewRequest
    \/ DoAuth
    \/ HandleStart(FALSE)
    \/ SelectResult
    \/ HandleReturn
    \/ DoRedirect
    \/ \E d \in Frames : \E r \in LoopAnswers : RoundTripReturns(d, r)
    \/ \E d \in Frames : DumpResponse(d)
    \/ \E d \in Frames : Send(d)

LoopSpec == Init /\ [][LoopNext]_vars

LateFire(reason) ==
    /\ pc = "idle"
    /\ Fire(reason)

\* the caller invokes Do with that context
LateCallDo(c) ==
    /\ ctxErr # NilErr
    /\ CallDo(c)

LateNext ==
    \/ \E reason \in {Canceled, DeadlineExceeded} : LateFire(reason)
    \/ \E c \in Calls : LateCallDo(c)
    \/ CallerStep
    \/ \E d \in Frames : \E r \in Answers(d) : RoundTripReturns(d, r)
    \/ \E d \in Frames : DumpResponse(d)
    \/ \E d \in Frames : Send(d)

LateSpec == Init /\ [][LateNext]_vars

\* C26: a handle call made with a signal that has already fired still
\* creates its transport, hands it the request and starts its goroutine,
\* and takes the cancellation case only afterwards; when the result is in
\* the channel both cases of the select can be taken, and the call returns,
\* after RoundTrip has returned, either (nil, ctx.Err()) or the pair
\* RoundTrip returned.
C26_FiredSignalStillStarts ==
    \A d \in Frames :
        Started(d) =>
            /\ ctxErr # NilErr
            /\ tr[d].created /\ tr[d].trips = 1 /\ tr[d].sent = req[d]
            /\ bg[d] # "none"
            /\ d = depth /\ pc = "select" /\ Len(ch[d].buf) > 0 =>
                  ENABLED SelectDone /\ ENABLED SelectResult
            /\ Returned(d) =>
                  /\ rt[d] # Nil
                  /\ hret[d] \in {CancelResult, rt[d][1]}

\* the first handle call, made after the signal fired, returned the 302 its
\* transport answered; the handle call of the redirect, made with the same
\* fired signal, returned the signal's reason
C26_Witness ==
    /\ pc = "done"
    /\ sel[1] = "ch"
    /\ hret[1] = rt[1][1] /\ hret[1].resp # Nil
    /\ tr[2].created /\ sel[2] = "ctx"
    /\ hret[2] = CancelResult
    /\ ret = ctxErr

\* C9: a handle call whose signal has fired returns; a handle call returns
\* once RoundTrip has returned and only then; and while the transport hangs
\* and the signal has not fired, handle has not returned.  (RoundTrip here
\* returns whenever it answers by itself or CancelRequest was called.)
C9_Termination ==
    \A d \in Frames :
        /\ (Started(d) /\ ctxErr # NilErr) ~> Returned(d)
        /\ (rt[d] # Nil) ~> Returned(d)
        /\ [](Returned(d) => rt[d] # Nil)
        /\ [](Started(d) /\ tr[d].hangs /\ ctxErr = NilErr => ~Returned(d))

====
